---- MODULE Spec2Model ----
(***************************************************************************)
(* PlotlyDashboard.create_forecast_dashboard                               *)
(* (src/src/visualization/plotly_dashboard.py) as a state machine.         *)
(*                                                                         *)
(* State: the caller's result dictionary, the process working directory,   *)
(* the file system, the process-wide NumPy random generator, and what the  *)
(* last call returned or raised.  One action, Render, is one whole call.   *)
(*                                                                         *)
(* Floating point is not modelled: a percentage return is kept as the      *)
(* pair (numerator, denominator) and a rolling standard deviation as the   *)
(* window of returns it is taken over.                                     *)
(***************************************************************************)
EXTENDS Integers, Sequences, FiniteSets

VARIABLES res, cwd, fs, rng, calls, output_path, outcome

vars == <<res, cwd, fs, rng, calls, output_path, outcome>>

-----------------------------------------------------------------------------
(* Bounds of the model *)

MaxN == 3
MaxHist == 23
MaxLevels == 2
MaxMissing == 2
MaxCalls == 2

(* Program constants *)

Window == 20
NumSamples == 1000

-----------------------------------------------------------------------------
(* Python / pandas values *)

Num(n) == [t |-> "num", v |-> n]
Str(d) == [t |-> "str", v |-> d]
Ts(d) == [t |-> "ts", v |-> d]
None == [t |-> "none", v |-> 0]
NaN == [t |-> "nan", v |-> 0]

Reverse(s) == [i \in 1..Len(s) |-> s[Len(s) + 1 - i]]

RECURSIVE SeqSum(_)
SeqSum(s) == IF s = <<>> THEN 0 ELSE Head(s) + SeqSum(Tail(s))

(* pd.to_datetime: a date string becomes a timestamp *)
ToDatetime(c) == IF c.t = "str" THEN Ts(c.v) ELSE c

(* What pd.DataFrame(list of dicts) does to one column: a key missing from
   a row is NaN; a column holding a string stays an object column; a column
   of nothing but None stays an object column of None; in every other
   column None becomes NaN (the column is converted to float64). *)
MaybeConvertObjects(c) ==
    IF \E i \in 1..Len(c) : c[i].t = "str" THEN c
    ELSE IF \A i \in 1..Len(c) : c[i].t = "none" THEN c
    ELSE [i \in 1..Len(c) |-> IF c[i].t = "none" THEN NaN ELSE c[i]]

DataFrame(points) ==
    LET columns == UNION {DOMAIN points[i] : i \in 1..Len(points)}
        raw(k) == [i \in 1..Len(points) |->
                      IF k \in DOMAIN points[i] THEN points[i][k] ELSE NaN]
    IN  [k \in columns |-> MaybeConvertObjects(raw(k))]

(* lines 24-25: forecast_df, with its date column converted *)
ForecastFrame(r) ==
    LET df == DataFrame(r.forecast)
    IN  [k \in DOMAIN df |->
            IF k = "date" THEN [i \in 1..Len(df[k]) |-> ToDatetime(df[k][i])]
            ELSE df[k]]

(* lines 27-28: hist_prices; historical_data is an ordered mapping, kept as
   the sequence of its (date, price) items *)
HistPrices(r) ==
    LET h == r.historical_data
    IN  [index |-> [i \in 1..Len(h) |-> ToDatetime(h[i][1])],
         values |-> [i \in 1..Len(h) |-> h[i][2]]]

(* `x is not None` *)
IsNotNone(c) == c.t # "none"

-----------------------------------------------------------------------------
(* Rolling volatility, line 72 *)

NoRet == [t |-> "nan", num |-> 0, den |-> 1]

(* Faulty variant: the first change is taken to be zero instead of missing *)
PctChangeFilled(p) ==
    [i \in 1..Len(p) |->
        IF i = 1 THEN [t |-> "ret", num |-> 0, den |-> 1]
        ELSE IF p[i - 1].v = 0
             THEN [t |-> IF p[i].v = 0 THEN "nan" ELSE "inf", num |-> 0, den |-> 1]
             ELSE [t |-> "ret", num |-> p[i].v - p[i - 1].v, den |-> p[i - 1].v]]

(* Series.pct_change(): nothing precedes the first point; a zero previous
   price gives an infinite (or 0/0) change *)
PctChange(p) ==
    [i \in 1..Len(p) |->
        IF i = 1 THEN NoRet
        ELSE IF p[i - 1].v = 0
             THEN [t |-> IF p[i].v = 0 THEN "nan" ELSE "inf", num |-> 0, den |-> 1]
             ELSE [t |-> "ret", num |-> p[i].v - p[i - 1].v, den |-> p[i - 1].v]]

(* rolling: a value that is neither NaN nor infinite is an observation *)
IsObservation(x) == x.t = "ret"

NumObservations(win) == SeqSum([i \in 1..Len(win) |-> IF IsObservation(win[i]) THEN 1 ELSE 0])

(* Faulty variant: rolling(w, min_periods=2), defined as soon as the window
   holds two observations *)
RollingStdMinPeriods2(s, w) ==
    [i \in 1..Len(s) |->
        LET lo == IF i - w + 1 < 1 THEN 1 ELSE i - w + 1
            win == SubSeq(s, lo, i)
        IN  IF NumObservations(win) >= 2
            THEN [t |-> "std", of |-> win, times |-> 1]
            ELSE [t |-> "nan", of |-> <<>>, times |-> 1]]

(* Series.rolling(w).std(): min_periods is the window; a point is defined
   when its window holds w finite observations *)
RollingStd(s, w) ==
    [i \in 1..Len(s) |->
        LET lo == IF i - w + 1 < 1 THEN 1 ELSE i - w + 1
            win == SubSeq(s, lo, i)
        IN  IF NumObservations(win) >= w
            THEN [t |-> "std", of |-> win, times |-> 1]
            ELSE [t |-> "nan", of |-> <<>>, times |-> 1]]

(* ... * np.sqrt(252): the factor is kept squared *)
Annualize(s) == [i \in 1..Len(s) |-> [s[i] EXCEPT !.times = 252]]

Volatility(hist) == Annualize(RollingStd(PctChange(hist.values), Window))

IsDefined(v) == v.t = "std"

-----------------------------------------------------------------------------
(* Paths, lines 13 and 148-149 *)

Path(a, parts) == [abs |-> a, parts |-> parts]

DefaultOutputPath == Path(FALSE, <<"forecast_dashboard.html">>)

(* Path.absolute(): an absolute path is kept, a relative one is joined to
   the working directory *)
AbsoluteRelative(c, p) == p

Absolute(c, p) == IF p.abs THEN p ELSE Path(TRUE, c.parts \o p.parts)

Parent(p) == Path(p.abs, SubSeq(p.parts, 1, Len(p.parts) - 1))

WorkDir == Path(TRUE, <<"work">>)
TmpDir == Path(TRUE, <<"tmp">>)
Dirs == {WorkDir, TmpDir, Path(TRUE, <<"work", "out">>)}

EmptyFile == <<>>

(* The file as the operating system names it: a relative name is resolved
   against the working directory *)
OsResolve(c, p) == IF p.abs THEN p ELSE Path(TRUE, c.parts \o p.parts)

(* open(path, "w") succeeds when the directory of the file exists and the
   name is not a directory *)
Writable(c, p) ==
    LET q == OsResolve(c, p)
    IN  Len(q.parts) > 0 /\ Parent(q) \in Dirs /\ q \notin Dirs

-----------------------------------------------------------------------------
(* The figure, lines 31-104 *)

Panel11 == <<1, 1>>
Panel12 == <<1, 2>>
Panel21 == <<2, 1>>
Panel22 == <<2, 2>>

Scatter(panel, name, x, y) ==
    [type |-> "scatter", panel |-> panel, name |-> name, x |-> x, y |-> y]

Histogram(panel, name, sample) ==
    [type |-> "histogram", panel |-> panel, name |-> name, sample |-> sample]

Annotation(kind, text, args) == [kind |-> kind, text |-> text, args |-> args]

EmptyFig == [traces |-> <<>>, shapes |-> <<>>, annotations |-> <<>>]

(* lines 31-43: make_subplots puts the four panel titles in the figure as
   annotations *)
MakeSubplots(ticker) ==
    [traces |-> <<>>,
     shapes |-> <<>>,
     annotations |-> << Annotation("subplot_title", "Strategic Forecast", <<ticker>>),
                        Annotation("subplot_title", "Model Consensus: LSTM vs ARIMA", <<>>),
                        Annotation("subplot_title", "Rolling Volatility Pulse", <<>>),
                        Annotation("subplot_title", "Risk Distribution & VaR Analysis", <<>>) >>]

AddTrace(fig, tr) == [fig EXCEPT !.traces = Append(@, tr)]

(* lines 53-55: faulty variant that does not reverse the second half *)
CorridorForward(fc) ==
    [x |-> fc["date"] \o fc["date"], y |-> fc["upper"] \o fc["lower"]]

(* lines 53-55: the polygon of the confidence corridor *)
Corridor(fc) ==
    [x |-> fc["date"] \o Reverse(fc["date"]),
     y |-> fc["upper"] \o Reverse(fc["lower"])]

(* lines 64 and 67: is the overlay of a per-model column drawn *)
OverlayDrawn(fc, key) == IsNotNone(fc[key][1])

(* lines 45-61 *)
Panel1Traces(fc, hist) ==
    << Scatter(Panel11, "Price History", hist.index, hist.values),
       Scatter(Panel11, "Ensemble Core", fc["date"], fc["price"]),
       Scatter(Panel11, "Confidence Corridor (95%)", Corridor(fc).x, Corridor(fc).y) >>

(* lines 63-69 *)
Panel2Traces(fc) ==
    (IF OverlayDrawn(fc, "lstm")
     THEN << Scatter(Panel12, "LSTM Node", fc["date"], fc["lstm"]) >> ELSE <<>>)
    \o
    (IF OverlayDrawn(fc, "arima")
     THEN << Scatter(Panel12, "ARIMA Node", fc["date"], fc["arima"]) >> ELSE <<>>)

(* lines 71-75 *)
Panel3Traces(hist) ==
    << Scatter(Panel21, "20D Realized Vol", hist.index, Volatility(hist)) >>

(* line 79: np.random.normal(0, volatility * 10, 1000), drawn from the
   process-wide generator in state g *)
Errors(g, volatility) ==
    [n |-> NumSamples, drawn_at |-> g, mean |-> 0, scale10 |-> volatility]

(* lines 77-81 *)
Panel4Traces(r, g) ==
    << Histogram(Panel22, "Probability density", Errors(g, r.risk_metrics.volatility)) >>

PanelTraces(fig, panel) == SelectSeq(fig.traces, LAMBDA tr : tr.panel = panel)

(* fig.add_hline(y, ..., annotation_text, row, col): one shape and one
   annotation on that panel; nothing is added to a panel with no trace *)
AddHline(fig, y, color, text, panel) ==
    IF PanelTraces(fig, panel) = <<>> THEN fig
    ELSE [fig EXCEPT
            !.shapes = Append(@, [type |-> "hline", panel |-> panel, y |-> y,
                                  line_dash |-> "dash", line_color |-> color]),
            !.annotations = Append(@, [kind |-> "hline", text |-> text,
                                       args |-> <<y>>, panel |-> panel])]

ResistanceColor == "#FF3D00"
SupportColor == "#00C853"

RECURSIVE AddHlines(_, _, _, _)
AddHlines(fig, levels, color, text) ==
    IF levels = <<>> THEN fig
    ELSE AddHlines(AddHline(fig, Head(levels), color, text, Panel11),
                   Tail(levels), color, text)

RECURSIVE Dedup(_)
Dedup(s) ==
    IF s = <<>> THEN <<>>
    ELSE <<Head(s)>> \o SelectSeq(Dedup(Tail(s)), LAMBDA x : x # Head(s))

(* lines 84-89: faulty variant that draws each distinct level once *)
OverlaysDistinct(fig, levels) ==
    AddHlines(AddHlines(fig, Dedup(levels.resistance), ResistanceColor, "RES"),
              Dedup(levels.support), SupportColor, "SUPP")

(* lines 84-89 *)
Overlays(fig, levels) ==
    AddHlines(AddHlines(fig, levels.resistance, ResistanceColor, "RES"),
              levels.support, SupportColor, "SUPP")

(* lines 92-104: the metric annotation *)
Hud(fig, m) ==
    [fig EXCEPT !.annotations =
        Append(@, Annotation("hud", "SHARPE / VOLATILITY / VaR (95%)",
                             <<m.sharpe_ratio, m.volatility, m.var_95>>))]

RECURSIVE AddTraces(_, _)
AddTraces(fig, trs) ==
    IF trs = <<>> THEN fig ELSE AddTraces(AddTrace(fig, Head(trs)), Tail(trs))

(* lines 23-104, for a result none of whose reads fails *)
Figure(r, g) ==
    LET fc == ForecastFrame(r)
        hist == HistPrices(r)
        f0 == MakeSubplots(r.ticker)
        f1 == AddTraces(f0, Panel1Traces(fc, hist))
        f2 == AddTraces(f1, Panel2Traces(fc))
        f3 == AddTraces(f2, Panel3Traces(hist))
        f4 == AddTraces(f3, Panel4Traces(r, g))
        f5 == Overlays(f4, r.levels)
    IN  Hud(f5, r.risk_metrics)

-----------------------------------------------------------------------------
(* The reads of the input and the write, in the order the code makes them *)

Steps ==
    << "ticker",          \* line 23   res['ticker']
       "forecast",        \* line 24   res['forecast']
       "date",            \* line 25   forecast_df['date']
       "historical_data", \* line 27   res['historical_data']
       "price",           \* line 50   forecast_df['price']
       "upper",           \* line 55   forecast_df['upper']
       "lower",           \* line 55   forecast_df['lower']
       "lstm",            \* line 64   forecast_df['lstm']
       "arima",           \* line 67   forecast_df['arima']
       "risk_metrics",    \* line 78   res['risk_metrics']
       "volatility",      \* line 79   risk_metrics['volatility']
       "draw",            \* line 79   np.random.normal
       "levels",          \* line 84   res['levels']
       "resistance",      \* line 84   res['levels']['resistance']
       "support",         \* line 87   res['levels']['support']
       "sharpe_ratio",    \* line 93   risk_metrics['sharpe_ratio']
       "var_95",          \* line 95   risk_metrics['var_95']
       "write" >>         \* line 149  fig.write_html

Pos(step) == CHOOSE i \in 1..Len(Steps) : Steps[i] = step

(* Does the step raise, given that every step before it did not *)
StepFails(step, r, c, target) ==
    CASE step \in {"ticker", "forecast", "historical_data", "risk_metrics", "levels"}
            -> step \notin DOMAIN r
      [] step \in {"date", "price", "upper", "lower", "lstm", "arima"}
            -> step \notin DOMAIN DataFrame(r.forecast)
      [] step \in {"volatility", "sharpe_ratio", "var_95"}
            -> step \notin DOMAIN r.risk_metrics
      [] step \in {"resistance", "support"}
            -> step \notin DOMAIN r.levels
      [] step = "draw"
            -> FALSE
      [] step = "write"
            -> ~Writable(c, target)

RECURSIVE FirstFailure(_, _, _, _)
FirstFailure(i, r, c, target) ==
    IF i > Len(Steps) THEN 0
    ELSE IF StepFails(Steps[i], r, c, target) THEN i
    ELSE FirstFailure(i + 1, r, c, target)

(* The index in Steps of the step that raises, 0 when none does *)
FailedAt(r, c, target) == FirstFailure(1, r, c, target)

ErrorKind(step) == IF step = "write" THEN "OSError" ELSE "KeyError"

(* Was the step executed to its end, in a call that failed at step f *)
Reached(step, f) == f = 0 \/ Pos(step) < f

(* Faulty variant: the document is written before the overlays are read *)
WriteHappensBeforeOverlays(f) == f = 0 \/ Pos("draw") < f

(* line 149 is the last step: it is executed when no read failed, and it
   leaves a file when it does not fail itself *)
WriteHappens(f) == f = 0

(* Faulty variant: write_html(path, include_plotlyjs="directory"), which
   also leaves plotly.min.js beside the document *)
WriteHtmlWithBundle(files, c, p, fig) ==
    LET q == OsResolve(c, p)
        js == Path(TRUE, Parent(q).parts \o <<"plotly.min.js">>)
    IN  [x \in DOMAIN files \cup {q, js} |->
            IF x = q THEN <<fig>> ELSE IF x = js THEN <<fig>> ELSE files[x]]

(* fig.write_html(path): the whole document replaces the file *)
WriteHtml(files, c, p, fig) ==
    LET q == OsResolve(c, p)
    IN  [x \in DOMAIN files \cup {q} |-> IF x = q THEN <<fig>> ELSE files[x]]

(* Faulty variant: the dates of the caller's forecast points are converted
   in place *)
ResAfterCallInPlace(r) ==
    IF "forecast" \in DOMAIN r
    THEN [r EXCEPT !.forecast =
            [i \in 1..Len(@) |->
                [k \in DOMAIN @[i] |->
                    IF k = "date" THEN ToDatetime(@[i][k]) ELSE @[i][k]]]]
    ELSE r

(* lines 24-28, 72, 79: the frame, the series, the volatility and the
   sample are new objects; nothing is assigned into res *)
ResAfterCall(r) == r

NoPath == Path(FALSE, <<>>)

NoOutcome == [status |-> "none", error |-> "", ret |-> NoPath, fig |-> EmptyFig]

(* One call of create_forecast_dashboard(res, op), lines 13-150 *)
Render(op) ==
    /\ calls < MaxCalls
    /\ LET target == Absolute(cwd, op)
           f == FailedAt(res, cwd, target)
           fig == IF f = 0 THEN Figure(res, rng) ELSE EmptyFig
       IN  /\ rng' = IF Reached("draw", f) THEN rng + NumSamples ELSE rng
           /\ fs' = IF WriteHappens(f) THEN WriteHtml(fs, cwd, target, fig) ELSE fs
           /\ outcome' = [status |-> IF f = 0 THEN "ok" ELSE ErrorKind(Steps[f]),
                          error |-> IF f = 0 THEN "" ELSE Steps[f],
                          ret |-> IF f = 0 THEN target ELSE NoPath,
                          fig |-> fig]
    /\ res' = ResAfterCall(res)
    /\ output_path' = op
    /\ calls' = calls + 1
    /\ UNCHANGED cwd

-----------------------------------------------------------------------------
(* Inputs *)

PointKeys == {"date", "price", "upper", "lower", "lstm", "arima"}
Optional == {"absent", "none", "num"}

(* Forecast point j: price 10 + j between lower 9 + j and upper 11 + j; the
   per-model estimates are a number, None, or not in the dictionary *)
Point(j, l, a) ==
    [k \in PointKeys \ ((IF l = "absent" THEN {"lstm"} ELSE {})
                        \cup (IF a = "absent" THEN {"arima"} ELSE {})) |->
        CASE k = "date" -> Str(100 + j)
          [] k = "price" -> Num(10 + j)
          [] k = "upper" -> Num(11 + j)
          [] k = "lower" -> Num(9 + j)
          [] k = "lstm" -> IF l = "none" THEN None ELSE Num(20 + j)
          [] k = "arima" -> IF a = "none" THEN None ELSE Num(30 + j)]

ForecastOf(n, ls, as) == [j \in 1..n |-> Point(j, ls[j], as[j])]

(* A history of L prices, the z-th of them zero (none when z = 0) *)
HistOf(L, z) == [i \in 1..L |-> <<Str(i), Num(IF i = z THEN 0 ELSE 100 + (i % 3))>>]

LevelValues == {Num(8), Num(15)}

SeqsUpTo(S, n) == UNION {[1..k -> S] : k \in 0..n}

RequiredFields ==
    {"ticker", "forecast", "historical_data", "risk_metrics", "volatility",
     "sharpe_ratio", "var_95", "levels", "resistance", "support"}

TopLevel == {"ticker", "forecast", "historical_data", "risk_metrics", "levels"}

(* The result dictionary, without the fields in missing *)
ResOf(missing, fc, hist, resistance, support) ==
    [k \in TopLevel \ missing |->
        CASE k = "ticker" -> Str(1)
          [] k = "forecast" -> fc
          [] k = "historical_data" -> hist
          [] k = "risk_metrics" ->
                [m \in {"volatility", "sharpe_ratio", "var_95"} \ missing |->
                    CASE m = "volatility" -> Num(20)
                      [] m = "sharpe_ratio" -> Num(150)
                      [] m = "var_95" -> Num(-5)]
          [] k = "levels" ->
                [m \in {"resistance", "support"} \ missing |->
                    IF m = "resistance" THEN resistance ELSE support]]

AllNum(n) == [j \in 1..n |-> "num"]

DefaultForecast == ForecastOf(MaxN, AllNum(MaxN), AllNum(MaxN))
DefaultHist == HistOf(2, 0)

OutputPaths ==
    { DefaultOutputPath,
      Path(FALSE, <<"out", "d.html">>),
      Path(TRUE, <<"tmp", "d.html">>),
      Path(TRUE, <<"nodir", "d.html">>) }

ExistingEmpty == [x \in {Path(TRUE, <<"work", "forecast_dashboard.html">>)} |-> EmptyFile]
NoFiles == [x \in {} |-> EmptyFile]

InitCommon ==
    /\ rng = 0
    /\ calls = 0
    /\ output_path = NoPath
    /\ outcome = NoOutcome

(* Results with up to MaxMissing required fields missing, in either working
   directory, with or without an empty file where the default path leads *)
Init ==
    /\ \E missing \in SUBSET RequiredFields :
          /\ Cardinality(missing) <= MaxMissing
          /\ res = ResOf(missing, DefaultForecast, DefaultHist, <<Num(15)>>, <<Num(8)>>)
    /\ cwd \in {WorkDir, TmpDir}
    /\ fs \in {NoFiles, ExistingEmpty}
    /\ InitCommon

(* Forecasts of 0..MaxN points, each estimate a number, None or absent *)
InitForecast ==
    /\ \E n \in 0..MaxN : \E ls, as \in [1..n -> Optional] :
          res = ResOf({}, ForecastOf(n, ls, as), DefaultHist, <<Num(15)>>, <<Num(8)>>)
    /\ cwd = WorkDir
    /\ fs = NoFiles
    /\ InitCommon

(* Histories of 1..MaxHist prices, at most one of them zero *)
InitVol ==
    /\ \E L \in 1..MaxHist : \E z \in 0..L :
          res = ResOf({}, DefaultForecast, HistOf(L, z), <<Num(15)>>, <<Num(8)>>)
    /\ cwd = WorkDir
    /\ fs = NoFiles
    /\ InitCommon

(* Level collections of 0..MaxLevels values, repeats allowed *)
InitLevels ==
    /\ \E rs, ss \in SeqsUpTo(LevelValues, MaxLevels) :
          res = ResOf({}, DefaultForecast, DefaultHist, rs, ss)
    /\ cwd = WorkDir
    /\ fs = NoFiles
    /\ InitCommon

Next == \E op \in OutputPaths : Render(op)

NextDefault == Render(DefaultOutputPath)

Spec == Init /\ [][Next]_vars
SpecForecast == InitForecast /\ [][NextDefault]_vars
SpecVol == InitVol /\ [][NextDefault]_vars
SpecLevels == InitLevels /\ [][NextDefault]_vars

-----------------------------------------------------------------------------
(* Properties *)

Succeeded == outcome.status = "ok"
Called == calls' = calls + 1

Traces == outcome.fig.traces
HasTrace(name) == \E i \in 1..Len(Traces) : Traces[i].name = name
TracesOn(panel) == PanelTraces(outcome.fig, panel)
Names(trs) == [i \in 1..Len(trs) |-> trs[i].name]

(* The first forecast point of the input carries a number under key *)
FirstHasValue(key) ==
    /\ Len(res.forecast) >= 1
    /\ key \in DOMAIN res.forecast[1]
    /\ res.forecast[1][key].t = "num"

(* C1: after a successful call on a forecast of N >= 1 points, the LSTM
   trace is in the figure exactly when the first forecast point has an lstm
   value (it is excluded when that value is absent or None, whatever the
   later points hold), and likewise the ARIMA trace with arima, each
   decided independently of the other. *)
C1_OverlayFollowsFirstPoint ==
    Succeeded =>
        /\ HasTrace("LSTM Node") <=> FirstHasValue("lstm")
        /\ HasTrace("ARIMA Node") <=> FirstHasValue("arima")

-----------------------------------------------------------------------------
HistLen == Len(res.historical_data)
PriceAt(i) == res.historical_data[i][2].v
AllPricesNonZero == \A i \in 1..HistLen : PriceAt(i) # 0
VolY == TracesOn(Panel21)[1].y

(* The percentage return of point i, from the input *)
ReturnAt(i) == [t |-> "ret", num |-> PriceAt(i) - PriceAt(i - 1), den |-> PriceAt(i - 1)]

(* C2 as claimed: for a history of L non-zero prices the volatility series
   has L points, the first 19 undefined and points 20..L defined. *)
C2_DefinedFromPoint20 ==
    (Succeeded /\ AllPricesNonZero) =>
        /\ Len(VolY) = HistLen
        /\ \A i \in 1..HistLen : IsDefined(VolY[i]) <=> i >= Window

(* C2 as amended: for a history of L non-zero prices the volatility series
   has L points, the first 20 undefined and points 21..L defined, point i
   being the standard deviation of the 20 percentage returns ending at i,
   times sqrt(252). *)
C2_DefinedFromPoint21 ==
    (Succeeded /\ AllPricesNonZero) =>
        /\ Len(VolY) = HistLen
        /\ \A i \in 1..HistLen :
              /\ IsDefined(VolY[i]) <=> i >= Window + 1
              /\ IsDefined(VolY[i]) =>
                    /\ VolY[i].of = [k \in 1..Window |-> ReturnAt(i - Window + k)]
                    /\ VolY[i].times = 252

C2_Witness ==
    /\ Succeeded
    /\ AllPricesNonZero
    /\ HistLen >= Window + 2
    /\ ~IsDefined(VolY[Window])
    /\ IsDefined(VolY[Window + 1])
    /\ IsDefined(VolY[HistLen])

-----------------------------------------------------------------------------
(* A field the call requires is not in the result *)
AnyRequiredMissing(r) ==
    \/ \E k \in TopLevel : k \notin DOMAIN r
    \/ /\ "risk_metrics" \in DOMAIN r
       /\ \E k \in {"volatility", "sharpe_ratio", "var_95"} : k \notin DOMAIN r.risk_metrics
    \/ /\ "levels" \in DOMAIN r
       /\ \E k \in {"resistance", "support"} : k \notin DOMAIN r.levels

(* C3: a call on a result with a required field missing fails with a data
   error and leaves every file as it was; and a call that creates or
   changes a file is a call that succeeds. *)
C3_MissingFieldWritesNothing ==
    [][Called =>
          /\ AnyRequiredMissing(res) => (outcome'.status = "KeyError" /\ fs' = fs)
          /\ fs' # fs => outcome'.status = "ok"]_vars

(* The field read last of all is missing: the sample has been drawn, the
   call has failed, and there is no file *)
C3_Witness ==
    /\ calls > 0
    /\ "levels" \in DOMAIN res
    /\ "support" \notin DOMAIN res.levels
    /\ "risk_metrics" \in DOMAIN res
    /\ "var_95" \notin DOMAIN res.risk_metrics
    /\ outcome.status = "KeyError"
    /\ outcome.error = "support"
    /\ rng > 0
    /\ DOMAIN fs = {}

-----------------------------------------------------------------------------
(* C4: the path a successful call returns is absolute, for a relative, an
   absolute and the default output_path alike, and the document of that
   call is the file at that path. *)
C4_ReturnsAbsoluteWrittenPath ==
    Succeeded =>
        /\ outcome.ret.abs
        /\ outcome.ret \in DOMAIN fs
        /\ fs[outcome.ret] = <<outcome.fig>>

C4_Witness ==
    /\ Succeeded
    /\ output_path = Path(FALSE, <<"out", "d.html">>)
    /\ outcome.ret = Path(TRUE, <<"work", "out", "d.html">>)
    /\ fs[outcome.ret] = <<outcome.fig>>

-----------------------------------------------------------------------------
(* The files that differ between two file systems *)
Changed(a, b) ==
    {p \in DOMAIN a \cup DOMAIN b :
        p \notin DOMAIN a \/ p \notin DOMAIN b \/ a[p] # b[p]}

-----------------------------------------------------------------------------
(* C6: a call, successful or not, leaves the result structure equal to what
   it was: the converted dates, the volatility and the sample are new
   values and the input keeps its own. *)
C6_InputNotMutated == [][Called => res' = res]_vars

(* After a successful call the figure holds timestamps and the input still
   holds the date strings *)
C6_Witness ==
    /\ Succeeded
    /\ res.forecast[1]["date"] = Str(101)
    /\ Traces[2].x[1] = Ts(101)
    /\ res.historical_data[1][1] = Str(1)
    /\ Traces[1].x[1] = Ts(1)

-----------------------------------------------------------------------------
Shapes == outcome.fig.shapes
HlineAnnotations == SelectSeq(outcome.fig.annotations, LAMBDA a : a.kind = "hline")
HlineShape(y, color) ==
    [type |-> "hline", panel |-> Panel11, y |-> y, line_dash |-> "dash",
     line_color |-> color]
HlineAnnotation(y, text) == [kind |-> "hline", text |-> text, args |-> <<y>>, panel |-> Panel11]

(* C7: after a successful call the figure has len(resistance) +
   len(support) horizontal lines and as many RES / SUPP annotations, empty
   and repeated levels included: one line in the resistance style per
   resistance level, one in the support style per support level, all of
   them on panel 1. *)
C7_OneLinePerLevel ==
    Succeeded =>
        LET R == res.levels.resistance
            S == res.levels.support
        IN  /\ Len(Shapes) = Len(R) + Len(S)
            /\ Len(HlineAnnotations) = Len(R) + Len(S)
            /\ \A i \in 1..Len(R) :
                  /\ Shapes[i] = HlineShape(R[i], ResistanceColor)
                  /\ HlineAnnotations[i] = HlineAnnotation(R[i], "RES")
            /\ \A j \in 1..Len(S) :
                  /\ Shapes[Len(R) + j] = HlineShape(S[j], SupportColor)
                  /\ HlineAnnotations[Len(R) + j] = HlineAnnotation(S[j], "SUPP")

(* A repeated resistance level and one support level *)
C7_Witness ==
    /\ Succeeded
    /\ res.levels.resistance = <<Num(15), Num(15)>>
    /\ res.levels.support = <<Num(8)>>
    /\ Len(Shapes) = 3

C7_WitnessEmpty ==
    /\ Succeeded
    /\ res.levels.resistance = <<>>
    /\ res.levels.support = <<>>
    /\ Shapes = <<>>

-----------------------------------------------------------------------------
(* C8: a call on an otherwise valid result whose history is too short to
   fill the 20-period window, a single point included, succeeds, and its
   volatility trace has one point per price and no defined point. *)
C8_ShortHistoryRendersNothingDefined ==
    (outcome.status # "none" /\ HistLen < Window) =>
        /\ Succeeded
        /\ Len(TracesOn(Panel21)) = 1
        /\ Len(VolY) = HistLen
        /\ \A i \in 1..HistLen : ~IsDefined(VolY[i])

C8_Witness ==
    /\ Succeeded
    /\ HistLen = 1
    /\ Len(VolY) = 1
    /\ ~IsDefined(VolY[1])

-----------------------------------------------------------------------------
N == Len(res.forecast)
CorridorTrace == TracesOn(Panel11)[3]

(* C9: for a forecast of N points the corridor polygon has 2 * N vertices:
   vertex i is (date[i], upper[i]) and vertex N + j is the j-th point from
   the end with its lower bound, so that x and y have the same length. *)
C9_CorridorVertices ==
    Succeeded =>
        /\ Len(CorridorTrace.x) = 2 * N
        /\ Len(CorridorTrace.y) = 2 * N
        /\ \A i \in 1..N :
              /\ CorridorTrace.x[i] = ToDatetime(res.forecast[i]["date"])
              /\ CorridorTrace.y[i] = res.forecast[i]["upper"]
              /\ CorridorTrace.x[N + i] = ToDatetime(res.forecast[N + 1 - i]["date"])
              /\ CorridorTrace.y[N + i] = res.forecast[N + 1 - i]["lower"]

C9_Witness ==
    /\ Succeeded
    /\ N = 3
    /\ CorridorTrace.y = <<Num(12), Num(13), Num(14), Num(12), Num(11), Num(10)>>
    /\ CorridorTrace.x = <<Ts(101), Ts(102), Ts(103), Ts(103), Ts(102), Ts(101)>>

-----------------------------------------------------------------------------
(* The first forecast point of the input has None under key *)
FirstIsNull(key) ==
    /\ Len(res.forecast) >= 1
    /\ key \in DOMAIN res.forecast[1]
    /\ res.forecast[1][key].t = "none"

JudgedPresent ==
    (IF OverlayDrawn(ForecastFrame(res), "lstm") THEN <<"LSTM Node">> ELSE <<>>)
    \o (IF OverlayDrawn(ForecastFrame(res), "arima") THEN <<"ARIMA Node">> ELSE <<>>)

(* C10: after a successful call panel 1 holds exactly the history, the
   ensemble forecast and the corridor, in that order; panel 2 holds the
   per-model series judged present, LSTM before ARIMA; panel 3 holds one
   volatility trace; panel 4 holds one histogram of 1000 samples; and with
   lstm and arima both None at index 0, panel 2 holds no trace. *)
C10_TracesPerPanel ==
    Succeeded =>
        /\ Names(TracesOn(Panel11)) =
              <<"Price History", "Ensemble Core", "Confidence Corridor (95%)">>
        /\ Names(TracesOn(Panel12)) = JudgedPresent
        /\ Names(TracesOn(Panel21)) = <<"20D Realized Vol">>
        /\ Len(TracesOn(Panel22)) = 1
        /\ TracesOn(Panel22)[1].type = "histogram"
        /\ TracesOn(Panel22)[1].sample.n = 1000
        /\ Len(Traces) = 5 + Len(JudgedPresent)
        /\ (FirstIsNull("lstm") /\ FirstIsNull("arima")) => TracesOn(Panel12) = <<>>

====
